---- MODULE Spec2Model ----
(***************************************************************************)
(* The HTTP bridge of sample-mcp-server: MCPHTTPBridge (src/http_server.py) *)
(* and HTTPTransport (src/http_transport.py), with the wrapped subprocess   *)
(* and the HTTP clients as the environment.                                 *)
(*                                                                          *)
(* All handlers are coroutines of one asyncio event loop.  A handler runs   *)
(* without interruption from one await to the next, so each such section    *)
(* is one action.  handle_mcp_request contains no await: its write and its  *)
(* readline are ordinary blocking calls made on the loop's thread, so while *)
(* readline waits for the subprocess no other handler can run.  The         *)
(* variable blockedBy names the handler that holds the loop that way.       *)
(***************************************************************************)
EXTENDS Integers, Sequences, FiniteSets, TLC

\* ---------------------------------------------------------------- bounds
MaxReq == 2          \* HTTP requests (or direct calls of a handler) per run
MaxPipeLines == 1    \* lines the stdout pipe holds before the subprocess blocks

\* asyncio.sleep(30) in event_stream
HeartbeatInterval == 30

Reqs == 1..MaxReq
\* request ids: every POST /mcp request of a run carries an id of its own,
\* request h the id h
Ids == Reqs

\* ------------------------------------------------------------ JSON values
\* A Python dict of the program, as a record: t is its shape.
Nil == [t |-> "nil", id |-> 0, msg |-> ""]
\* {"id": i, "method": "ping"}
Request(i) == [t |-> "request", id |-> i, msg |-> "ping"]
\* {"id": i, "result": i}
Reply(i) == [t |-> "result", id |-> i, msg |-> ""]
\* {"error": m}
Error(m) == [t |-> "error", id |-> 0, msg |-> m]
\* an HTTP body that is not JSON
BadBody == [t |-> "malformed", id |-> 0, msg |-> ""]

NotStarted == Error("MCP server not started")
NoResponse == Error("No response from MCP server")
NotConfigured == Error("MCP handler not configured")
\* str(e) of the BrokenPipeError raised by write/flush on a dead process
BrokenPipe == Error("[Errno 32] Broken pipe")
\* str(e) of the json.JSONDecodeError raised on text that starts no JSON value
JSONDecodeError == Error("Expecting value: line 1 column 1 (char 0)")
\* str(e) of the JSONDecodeError raised on a JSON value followed by more text
ExtraData == Error("Extra data")
Healthy == [t |-> "health", id |-> 0, msg |-> "healthy/http"]

\* --------------------------------------------------------- text on a pipe
\* Text is a sequence of tokens: a serialized JSON value (one token, as
\* json.dumps writes no raw newline), or one character.
Json(obj) == [c |-> "json", obj |-> obj]
Chr(x) == [c |-> x, obj |-> Nil]
BS == Chr("backslash")
LowerN == Chr("n")
NL == Chr("newline")
SP == Chr("space")
Junk == Chr("junk")

\* json.dumps
JsonDumps(obj) == <<Json(obj)>>

IsSpace(tok) == tok.c \in {"space", "newline"}

\* str.strip(): leading and trailing whitespace removed
RECURSIVE LStrip(_)
LStrip(text) ==
    IF text # <<>> /\ IsSpace(Head(text)) THEN LStrip(Tail(text)) ELSE text

RECURSIVE RStrip(_)
RStrip(text) ==
    IF text # <<>> /\ IsSpace(text[Len(text)])
    THEN RStrip(SubSeq(text, 1, Len(text) - 1))
    ELSE text

Strip(text) == RStrip(LStrip(text))

\* json.loads: [ok, val]; val is the parsed value, or str(e) as an error dict
JsonLoads(text) ==
    IF text = <<>> \/ text[1].c # "json" THEN [ok |-> FALSE, val |-> JSONDecodeError]
    ELSE IF Len(text) > 1 THEN [ok |-> FALSE, val |-> ExtraData]
    ELSE [ok |-> TRUE, val |-> text[1].obj]

\* The text handle_mcp_request writes for a request: json.dumps(request) + "\\n".
\* The literal "\\n" is the two characters backslash and n, not a newline.
RequestJson(request) == JsonDumps(request) \o <<BS, LowerN>>

\* ------------------------------------------------------------ subprocess
\* The wrapped subprocess reads its stdin as newline-delimited text: the
\* complete lines of the text written so far, in order.
RECURSIVE SplitLines(_, _)
SplitLines(text, cur) ==
    IF text = <<>> THEN <<>>
    ELSE IF Head(text) = NL THEN <<cur>> \o SplitLines(Tail(text), <<>>)
    ELSE SplitLines(Tail(text), Append(cur, Head(text)))

\* The requests the subprocess has received: the complete lines that parse
\* as a request, in order.
RECURSIVE ParsedRequests(_)
ParsedRequests(lines) ==
    IF lines = <<>> THEN <<>>
    ELSE LET m == JsonLoads(Strip(Head(lines)))
         IN  (IF m.ok /\ m.val.t = "request" THEN <<m.val>> ELSE <<>>)
             \o ParsedRequests(Tail(lines))

Received(text) == ParsedRequests(SplitLines(text, <<>>))

\* The line the subprocess writes in reply to a request.  A line keeps its
\* newline, as readline returns it: a blank line is the non-empty text "\n".
ReplyLine(request) == JsonDumps(Reply(request.id)) \o <<NL>>

\* Lines a subprocess may write that answer no request: a reply-shaped line
\* (a duplicate or a server-initiated message), a line that is not JSON, and
\* a blank line.
UnsolicitedLines(ids) ==
    {JsonDumps(Reply(i)) \o <<NL>> : i \in ids} \cup {<<Junk, NL>>, <<NL>>}

\* ----------------------------------------------------------------- state
VARIABLES
    mainpc,       \* where main() / the caller of the bridge is
    stoppc,       \* "idle"; "wait": stop() is inside process.wait();
                  \* "returned": a stop() that found a process has returned;
                  \* "again": a later stop() is inside process.wait()
    process,      \* MCPHTTPBridge.process: "None" or "Popen"
    procState,    \* the subprocess itself: "none", "running", "exited"
    signalled,    \* how many times terminate() has sent SIGTERM to the subprocess
    serving,      \* uvicorn is serving the app (HTTPTransport.start)
    mcp_handler,  \* HTTPTransport.mcp_handler is set
    stdinBuf,     \* all text written to the subprocess's stdin
    stdoutBuf,    \* lines the subprocess wrote that have not been read yet:
                  \* [text, late], late noting that the line carries the id
                  \* of a request that had already ended without its reply
    peerReplied,  \* indices of the received requests already replied to
    task,         \* the HTTP requests and direct handler calls of the run
    blockedBy     \* the task blocking the event loop in readline, or 0

vars == <<mainpc, stoppc, process, procState, signalled, serving, mcp_handler,
          stdinBuf, stdoutBuf, peerReplied, task, blockedBy>>

procVars == <<process, procState, signalled>>
pipeVars == <<stdinBuf, stdoutBuf, peerReplied>>
httpVars == <<serving, mcp_handler>>

\* A task is one request: kind is its route ("mcp", "health" or "stream"),
\* pc where its handler is, body and result what it received and returned.
\* The other fields record what happened to it: via ("http" or "direct"),
\* proc (self.process when the handler ran), wrote and read (it wrote to
\* stdin, it read from stdout), sawExit (the subprocess exited while it
\* waited with nothing to read), gotLate (the line it read was a late one),
\* since (stream: seconds since the last heartbeat).
IdleTask == [pc |-> "idle", kind |-> "none", via |-> "none", body |-> Nil,
             result |-> Nil, proc |-> "None", wrote |-> FALSE, read |-> FALSE,
             sawExit |-> FALSE, gotLate |-> FALSE, since |-> 0]

\* MCPHTTPBridge.__init__, before anything is started
Init ==
    /\ mainpc = "new"
    /\ stoppc = "idle"
    /\ process = "None"
    /\ procState = "none"
    /\ signalled = 0
    /\ serving = FALSE
    /\ mcp_handler = FALSE
    /\ stdinBuf = <<>>
    /\ stdoutBuf = <<>>
    /\ peerReplied = {}
    /\ task = [h \in Reqs |-> IdleTask]
    /\ blockedBy = 0

\* stop() is running: it holds the thread in process.wait()
InStop == stoppc \in {"wait", "again"}

\* The event loop can run a handler: no handler holds it in a blocking call,
\* and stop() is not holding the thread in process.wait().
\* (LoopFreeYielding: the same with handlers that yield while they wait)
LoopFreeYielding == ~InStop
LoopFree == blockedBy = 0 /\ ~InStop

\* The bridge is driven by direct calls of its methods rather than by main().
ApiMode == mainpc \in {"new", "api"}

\* Requests are numbered in the order they are made.
NextIdle(h) ==
    task[h].pc = "idle" /\ (IF h = 1 THEN TRUE ELSE task[h - 1].pc # "idle")

\* ------------------------------------------------------------- lifecycle
\* subprocess.Popen(["node", server_path], ...): the new process and its pipes
Popen ==
    /\ process' = "Popen"
    /\ procState' = "running"
    /\ signalled' = 0
    /\ stdinBuf' = <<>>
    /\ stdoutBuf' = <<>>
    /\ peerReplied' = {}

\* Where start() goes after start_mcp_server: on to start_http_transport, or,
\* when Popen raised, out of start() with the exception (logged and re-raised).
\* (AfterStartMcpServerSwallowed: the same with the exception swallowed)
AfterStartMcpServerSwallowed(ok) == "start_http_transport"
AfterStartMcpServer(ok) == IF ok THEN "start_http_transport" ELSE "finally"

\* main(): bridge.start(host, port) is called
MainStart ==
    /\ mainpc = "new"
    /\ mainpc' = "start_mcp_server"
    /\ UNCHANGED <<stoppc, procVars, httpVars, pipeVars, task, blockedBy>>

\* start(): await self.start_mcp_server()
start_mcp_server ==
    /\ mainpc = "start_mcp_server"
    /\ \E ok \in BOOLEAN :
         /\ IF ok THEN Popen ELSE UNCHANGED <<procVars, pipeVars>>
         /\ mainpc' = AfterStartMcpServer(ok)
    /\ UNCHANGED <<stoppc, httpVars, task, blockedBy>>

\* start(): await self.start_http_transport(host, port), up to the point
\* where uvicorn serves: the transport is built, the handler set, serve() runs
start_http_transport ==
    /\ mainpc = "start_http_transport"
    /\ mcp_handler' = TRUE
    /\ serving' = TRUE
    /\ mainpc' = "serving"
    /\ UNCHANGED <<stoppc, procVars, pipeVars, task, blockedBy>>

\* How event_stream ends when it is cancelled: CancelledError is raised at
\* the sleep, caught, and the generator returns
OnCancelled == "closed"

\* An interrupt ends serve() and main() goes to its finally clause.  serve()
\* runs on the event loop, so it ends only when the loop is free.  uvicorn
\* stops accepting; then, on a graceful exit, it returns once the requests
\* are over (here: those not answered yet are dropped, as when their clients
\* leave, and the streams are closed); on a forced exit (a second interrupt)
\* it returns at once and leaves the unfinished handlers on the loop.
Shutdown ==
    /\ mainpc = "serving"
    /\ LoopFree
    /\ serving' = FALSE
    /\ mainpc' = "finally"
    /\ \E force \in BOOLEAN :
         task' = [h \in Reqs |->
                    IF force THEN task[h]
                    ELSE IF task[h].pc \in {"json", "sent"}
                    THEN [IdleTask EXCEPT !.pc = "aborted", !.via = "http",
                                          !.kind = task[h].kind]
                    ELSE IF task[h].pc = "open"
                    THEN [task[h] EXCEPT !.pc = "closed", !.since = 0]
                    ELSE task[h]]
    /\ UNCHANGED <<stoppc, procVars, mcp_handler, pipeVars, blockedBy>>

\* A handler is still on the loop: its request is unanswered or its stream open
Unfinished(h) == task[h].pc \in {"json", "sent", "open"}

\* asyncio.run(main()), after main() has returned: the handlers still on the
\* loop are cancelled
LoopClose ==
    /\ mainpc = "exited"
    /\ \E h \in Reqs : Unfinished(h)
    /\ task' = [h \in Reqs |->
                  IF task[h].pc \in {"json", "sent"}
                  THEN [IdleTask EXCEPT !.pc = "aborted", !.via = "http",
                                        !.kind = task[h].kind]
                  ELSE IF task[h].pc = "open"
                  THEN [task[h] EXCEPT !.pc = OnCancelled, !.since = 0]
                  ELSE task[h]]
    /\ UNCHANGED <<mainpc, stoppc, procVars, httpVars, pipeVars, blockedBy>>

\* self.process.terminate(): signals a process that has not been reaped and
\* does nothing otherwise (the result: the signals sent to the process so far)
\* (TerminateUnchecked: the same with the signal sent in any case)
TerminateUnchecked(st, sig) == sig + 1
Terminate(st, sig) == IF st = "running" THEN sig + 1 ELSE sig

\* stop(), first half: if self.process: self.process.terminate().
\* Called from main()'s finally clause, or directly.
stop ==
    /\ ~InStop
    /\ \/ mainpc = "finally"
       \/ mainpc \in {"new", "api"} /\ blockedBy = 0
    /\ IF process = "None"
       THEN /\ mainpc' = IF mainpc = "finally" THEN "exited" ELSE "api"
            /\ UNCHANGED <<stoppc, signalled>>
       ELSE /\ stoppc' = IF stoppc = "idle" THEN "wait" ELSE "again"
            /\ signalled' = Terminate(procState, signalled)
            /\ mainpc' = IF mainpc = "finally" THEN "finally" ELSE "api"
    /\ UNCHANGED <<process, procState, httpVars, pipeVars, task, blockedBy>>

\* stop(), second half: self.process.wait() returns once the subprocess has
\* exited
stop_wait ==
    /\ InStop
    /\ procState = "exited"
    /\ stoppc' = "returned"
    /\ mainpc' = IF mainpc = "finally" THEN "exited" ELSE mainpc
    /\ UNCHANGED <<procVars, httpVars, pipeVars, task, blockedBy>>

\* A direct call of start_mcp_server() on a bridge that has no process yet
ApiStartMcpServer ==
    /\ ApiMode /\ LoopFree
    /\ process = "None"
    /\ \E ok \in BOOLEAN :
         IF ok THEN Popen ELSE UNCHANGED <<procVars, pipeVars>>
    /\ mainpc' = "api"
    /\ UNCHANGED <<stoppc, httpVars, task, blockedBy>>

\* ------------------------------------------------------ POST /mcp handler
\* if not self.process: the bridge has no process object
\* (NoProcessUnchecked: the same without the check)
NoProcessUnchecked(p) == FALSE
NoProcess(p) == p = "None"

\* self.process.stdin.write(request_json); flush(): the text is added at the
\* end of what the pipe has carried
\* (WriteUnflushed: the same without flush(): the text stays in the buffer)
WriteUnflushed(buf, text) == buf
Write(buf, text) == buf \o text

\* self.process.stdin.write(request_json); flush(): succeeds while the
\* subprocess holds the other end of the pipe, raises BrokenPipeError otherwise
\* (WriteSucceedsAlways: the same with no error raised)
WriteSucceedsAlways(st) == TRUE
WriteSucceeds(st) == st = "running"

\* self.process.stdout.readline() can return: a line is there, or the pipe is
\* at end of file because the subprocess has exited
ReadReady == stdoutBuf # <<>> \/ procState # "running"

\* readline(): the next unread line, or "" at end of file
Readline(buf) == IF buf # <<>> THEN Head(buf).text ELSE <<>>

\* What readline() leaves unread: it takes the line it returns off the pipe
\* (ConsumeNone: the same with the line left on the pipe)
ConsumeNone(buf) == buf
Consume(buf) == IF buf # <<>> THEN Tail(buf) ELSE <<>>

\* What handle_mcp_request returns for the line it read: the parsed line if
\* response_line is non-empty (str(e) in an error dict if parsing raises),
\* the "No response" error for the empty string
\* (ResponseOfUnchecked: the same without the test of response_line)
ResponseOfUnchecked(response_line) == JsonLoads(Strip(response_line)).val
ResponseOf(response_line) ==
    IF response_line # <<>> THEN JsonLoads(Strip(response_line)).val
    ELSE NoResponse

\* handle_mcp_request(request) called for task h, whose record is t: up to
\* its return, or up to the readline it blocks in
handle_mcp_request(h, t) ==
    IF NoProcess(process)
    THEN /\ task' = [task EXCEPT ![h] =
                       [t EXCEPT !.pc = "done", !.result = NotStarted,
                                 !.proc = process]]
         /\ UNCHANGED <<stdinBuf, blockedBy>>
    ELSE IF WriteSucceeds(procState)
    THEN /\ stdinBuf' = Write(stdinBuf, RequestJson(t.body))
         /\ task' = [task EXCEPT ![h] =
                       [t EXCEPT !.pc = "readline", !.wrote = TRUE,
                                 !.proc = process]]
         /\ blockedBy' = h
    ELSE /\ task' = [task EXCEPT ![h] =
                       [t EXCEPT !.pc = "done", !.result = BrokenPipe,
                                 !.proc = process]]
         /\ UNCHANGED <<stdinBuf, blockedBy>>

\* The bodies a client may send as request h
Bodies(h) == {Request(h), BadBody}

\* A client sends POST /mcp; uvicorn accepts the request and starts
\* handle_jsonrpc, which suspends in await request.json()
Accept(h) ==
    /\ serving /\ LoopFree
    /\ NextIdle(h)
    /\ \E body \in Bodies(h) :
         task' = [task EXCEPT ![h] =
                    [IdleTask EXCEPT !.pc = "json", !.kind = "mcp",
                                     !.via = "http", !.body = body]]
    /\ UNCHANGED <<mainpc, stoppc, procVars, httpVars, pipeVars, blockedBy>>

\* handle_jsonrpc from the body's arrival on: the body is parsed, the handler
\* is called; an exception becomes {"error": str(e)}
handle_jsonrpc(h) ==
    /\ serving /\ LoopFree
    /\ task[h].pc = "json"
    /\ IF task[h].body = BadBody
       THEN /\ task' = [task EXCEPT ![h].pc = "done",
                                    ![h].result = JSONDecodeError,
                                    ![h].proc = process]
            /\ UNCHANGED <<stdinBuf, blockedBy>>
       ELSE IF mcp_handler
       THEN handle_mcp_request(h, task[h])
       ELSE /\ task' = [task EXCEPT ![h].pc = "done",
                                    ![h].result = NotConfigured,
                                    ![h].proc = process]
            /\ UNCHANGED <<stdinBuf, blockedBy>>
    /\ UNCHANGED <<mainpc, stoppc, procVars, httpVars, stdoutBuf, peerReplied>>

\* A direct call of handle_mcp_request(request) on the bridge
ApiHandle(h) ==
    /\ ApiMode /\ LoopFree
    /\ NextIdle(h)
    /\ handle_mcp_request(h, [IdleTask EXCEPT !.kind = "mcp",
                                              !.via = "direct",
                                              !.body = Request(h)])
    /\ mainpc' = "api"
    /\ UNCHANGED <<stoppc, procVars, httpVars, stdoutBuf, peerReplied>>

\* handle_mcp_request from the return of readline on
readline(h) ==
    /\ task[h].pc = "readline"
    /\ blockedBy = h
    /\ ReadReady
    /\ LET response_line == Readline(stdoutBuf)
       IN  /\ task' = [task EXCEPT ![h].pc = "done", ![h].read = TRUE,
                                   ![h].result = ResponseOf(response_line),
                                   ![h].gotLate = (stdoutBuf # <<>> /\
                                                   Head(stdoutBuf).late)]
           /\ stdoutBuf' = Consume(stdoutBuf)
    /\ blockedBy' = 0
    /\ UNCHANGED <<mainpc, stoppc, procVars, httpVars, stdinBuf, peerReplied>>

\* ------------------------------------------------------------ GET /health
\* A client sends GET /health
ClientHealth(h) ==
    /\ serving
    /\ NextIdle(h)
    /\ task' = [task EXCEPT ![h] =
                  [IdleTask EXCEPT !.pc = "sent", !.kind = "health",
                                   !.via = "http"]]
    /\ UNCHANGED <<mainpc, stoppc, procVars, httpVars, pipeVars, blockedBy>>

\* What health_check returns
HealthStatus(st) == Healthy

health_check(h) ==
    /\ serving /\ LoopFree
    /\ task[h].pc = "sent"
    /\ task' = [task EXCEPT ![h].pc = "done",
                            ![h].result = HealthStatus(procState),
                            ![h].proc = process]
    /\ UNCHANGED <<mainpc, stoppc, procVars, httpVars, pipeVars, blockedBy>>

\* A direct call of the health route of a transport that is not serving
ApiHealth(h) ==
    /\ ApiMode /\ LoopFree
    /\ NextIdle(h)
    /\ task' = [task EXCEPT ![h] =
                  [IdleTask EXCEPT !.pc = "done", !.kind = "health",
                                   !.via = "direct",
                                   !.result = HealthStatus(procState),
                                   !.proc = process]]
    /\ mainpc' = "api"
    /\ UNCHANGED <<stoppc, procVars, httpVars, pipeVars, blockedBy>>

\* -------------------------------------------------------- GET /mcp/stream
\* The seconds since a session's last heartbeat are kept as 0 (just emitted),
\* HeartbeatInterval (the sleep is over) or more (overdue).
Overdue == HeartbeatInterval + 1

\* A client opens a stream: handle_sse_stream returns the StreamingResponse
\* and event_stream runs to its first await: the first heartbeat is yielded,
\* then sleep(30) begins
handle_sse_stream(h) ==
    /\ serving /\ LoopFree
    /\ NextIdle(h)
    /\ task' = [task EXCEPT ![h] =
                  [IdleTask EXCEPT !.pc = "open", !.kind = "stream",
                                   !.via = "http", !.proc = process,
                                   !.since = 0]]
    /\ UNCHANGED <<mainpc, stoppc, procVars, httpVars, pipeVars, blockedBy>>

\* The sleep of session h is over
SleepOver(h) == task[h].pc = "open" /\ task[h].since >= HeartbeatInterval

\* event_stream resumes after asyncio.sleep(30) and yields the next heartbeat
event_stream(h) ==
    /\ serving /\ LoopFree
    /\ SleepOver(h)
    /\ task' = [task EXCEPT ![h].since = 0]
    /\ UNCHANGED <<mainpc, stoppc, procVars, httpVars, pipeVars, blockedBy>>

\* The client goes away; the loop sees the disconnect and cancels the
\* generator
event_stream_cancelled(h) ==
    /\ LoopFree
    /\ task[h].pc = "open"
    /\ task' = [task EXCEPT ![h].pc = OnCancelled, ![h].since = 0]
    /\ UNCHANGED <<mainpc, stoppc, procVars, httpVars, pipeVars, blockedBy>>

\* Time passes: up to the end of the running sleeps, and beyond it only while
\* the loop cannot run the handlers whose sleep is over.
TimePasses ==
    /\ \E h \in Reqs : task[h].pc = "open" /\ task[h].since < Overdue
    /\ LoopFree => \A h \in Reqs : ~SleepOver(h)
    /\ task' = [h \in Reqs |->
                  IF task[h].pc # "open" THEN task[h]
                  ELSE IF task[h].since < HeartbeatInterval
                  THEN [task[h] EXCEPT !.since = HeartbeatInterval]
                  ELSE [task[h] EXCEPT !.since = Overdue]]
    /\ UNCHANGED <<mainpc, stoppc, procVars, httpVars, pipeVars, blockedBy>>

\* --------------------------------------------------- subprocess behaviour
\* What the subprocess may write next: the reply to a request it has received
\* and not answered (k is the request's index), or an unsolicited line (k = 0).
\* It writes while the pipe has room.
PeerChoices ==
    LET got == Received(stdinBuf)
    IN  {[k |-> k, line |-> ReplyLine(got[k])] :
            k \in (1..Len(got)) \ peerReplied}
        \cup
        {[k |-> 0, line |-> l] : l \in UnsolicitedLines(Ids)}

\* The request of task h was written to the subprocess and has ended without
\* its reply
EndedUnanswered(h) ==
    /\ task[h].pc = "done"
    /\ task[h].wrote
    /\ task[h].result # Reply(task[h].body.id)

\* The line carries the id of a request that has ended without its reply
IsLate(line) ==
    \E h \in Reqs : EndedUnanswered(h) /\ line = ReplyLine(task[h].body)

PeerWrite(c) ==
    /\ procState = "running"
    /\ Len(stdoutBuf) < MaxPipeLines
    /\ stdoutBuf' = Append(stdoutBuf, [text |-> c.line, late |-> IsLate(c.line)])
    /\ peerReplied' = IF c.k > 0 THEN peerReplied \cup {c.k} ELSE peerReplied
    /\ UNCHANGED <<mainpc, stoppc, procVars, httpVars, stdinBuf, task,
                   blockedBy>>

\* The subprocess writes a line to its stdout
PeerEmit == \E c \in PeerChoices : PeerWrite(c)

\* The subprocess answers a request it has received
PeerReply == \E c \in PeerChoices : c.k > 0 /\ PeerWrite(c)

\* The subprocess exits: it crashes, or it ends after SIGTERM.  A request
\* waiting in readline with nothing left to read sees the end of file.
PeerExit ==
    /\ procState = "running"
    /\ procState' = "exited"
    /\ task' = [h \in Reqs |->
                  IF task[h].pc = "readline" /\ stdoutBuf = <<>>
                  THEN [task[h] EXCEPT !.sawExit = TRUE] ELSE task[h]]
    /\ UNCHANGED <<mainpc, stoppc, process, signalled, httpVars, pipeVars,
                   blockedBy>>

\* ---------------------------------------------------------- specification
Next ==
    \/ MainStart
    \/ start_mcp_server
    \/ start_http_transport
    \/ Shutdown
    \/ LoopClose
    \/ stop
    \/ stop_wait
    \/ ApiStartMcpServer
    \/ \E h \in Reqs : Accept(h)
    \/ \E h \in Reqs : handle_jsonrpc(h)
    \/ \E h \in Reqs : ApiHandle(h)
    \/ \E h \in Reqs : readline(h)
    \/ \E h \in Reqs : ClientHealth(h)
    \/ \E h \in Reqs : health_check(h)
    \/ \E h \in Reqs : ApiHealth(h)
    \/ \E h \in Reqs : handle_sse_stream(h)
    \/ \E h \in Reqs : event_stream(h)
    \/ \E h \in Reqs : event_stream_cancelled(h)
    \/ TimePasses
    \/ PeerEmit
    \/ PeerExit

Spec == Init /\ [][Next]_vars

\* The event loop runs every handler that is ready, the subprocess answers
\* every request it has received, and wait() returns once the subprocess has
\* exited.  Nothing obliges a client to send
\* or to leave, the subprocess to exit or to write unasked, or time to pass.
Fairness ==
    /\ \A h \in Reqs : WF_vars(handle_jsonrpc(h))
    /\ \A h \in Reqs : WF_vars(readline(h))
    /\ \A h \in Reqs : WF_vars(health_check(h))
    /\ \A h \in Reqs : WF_vars(event_stream(h))
    /\ WF_vars(start_mcp_server)
    /\ WF_vars(start_http_transport)
    /\ WF_vars(PeerReply)
    /\ WF_vars(stop_wait)

FairSpec == Init /\ [][Next]_vars /\ Fairness

\* ------------------------------------------------------------------ claims
\* Task h is a POST /mcp request (or a direct handle_mcp_request call)
IsMcp(h) == task[h].kind = "mcp"

\* handle_mcp_request has run for task h: it returned or it is in readline
Handled(h) ==
    /\ IsMcp(h)
    /\ task[h].pc \in {"readline", "done"}
    /\ task[h].body # BadBody

\* Task h is blocked in readline: nothing to read, the subprocess running
Waiting(h) == task[h].pc = "readline" /\ ~ReadReady

\* C1: round-trip fidelity: a request with an id of its own, written while
\* the subprocess runs, returns exactly the reply of the subprocess for that
\* id (the subprocess still running when it returns).
C1_RoundTrip ==
    \A h \in Reqs :
        (IsMcp(h) /\ task[h].pc = "done" /\ task[h].wrote
            /\ procState = "running")
        => task[h].result = Reply(task[h].body.id)

\* Task h is outstanding: accepted and not yet answered
Outstanding(h) == IsMcp(h) /\ task[h].pc \in {"json", "readline"}

\* C2: correlation: of two requests with distinct ids outstanding at the same
\* time, the one that gets a reply gets the reply carrying its own id.
C2_Correlation ==
    [][\A h, k \in Reqs :
         (h # k /\ Outstanding(h) /\ Outstanding(k)
             /\ task[h].body # BadBody /\ task[k].body # BadBody
             /\ task'[h].pc = "done" /\ task'[h].result.t = "result")
         => task'[h].result.id = task[h].body.id]_vars

\* C3: bounded response: every POST /mcp request that was accepted completes
\* (with a reply or an error object), also when the subprocess stays alive
\* and never writes a line.
C3_BoundedResponse ==
    \A h \in Reqs :
        (Outstanding(h) /\ task[h].via = "http")
        ~> (task[h].pc \in {"done", "aborted"})

\* C4: late-reply isolation: a line carrying the id of a request that has
\* ended without its reply is never returned as the result of a request.
C4_LateReplyDropped ==
    \A h \in Reqs : ~task[h].gotLate

\* C5 as stated: a request that waited for a reply when the subprocess exited
\* completes with {"error": "mcp server not running"}.
C5_Original ==
    \A h \in Reqs :
        (task[h].sawExit /\ task[h].pc = "done")
        => task[h].result = Error("mcp server not running")

\* C5: a request that waited for a reply when the subprocess exited, with
\* nothing unread on its stdout, completes
\* with {"error": "No response from MCP server"}, and does not stay pending:
\* its readline can return.
C5_CrashFailsPending ==
    \A h \in Reqs :
        task[h].sawExit =>
            /\ task[h].pc \in {"readline", "done"}
            /\ task[h].pc = "readline" => ENABLED readline(h)
            /\ task[h].pc = "done" => task[h].result = NoResponse

\* An HTTP request waited when the subprocess exited and has returned
C5_Witness ==
    \E h \in Reqs :
        /\ task[h].via = "http" /\ task[h].sawExit
        /\ task[h].pc = "done" /\ task[h].result = NoResponse

\* C6 as stated: a request handled while self.process is None returns
\* {"error": "mcp server not started"}.
C6_Original ==
    \A h \in Reqs :
        (Handled(h) /\ task[h].proc = "None")
        => task[h].result = Error("mcp server not started")

\* C6: a request handled while self.process is None returns
\* {"error": "MCP server not started"} at once: it has returned, it wrote to
\* no pipe and read from none, and it never is in readline.
C6_NotStarted ==
    \A h \in Reqs :
        (Handled(h) /\ task[h].proc = "None")
        => /\ task[h].pc = "done"
           /\ task[h].result = NotStarted
           /\ ~task[h].wrote
           /\ ~task[h].read
           /\ blockedBy # h

\* handle_mcp_request was called on a bridge with no process and returned
C6_Witness ==
    \E h \in Reqs :
        /\ Handled(h) /\ task[h].proc = "None"
        /\ task[h].result = NotStarted
        /\ stdinBuf = <<>>

\* C7: health independence: a health request that was answered got the
\* healthy status whatever the subprocess's state, and every health request
\* a client has sent is eventually answered.
C7_HealthAnswered ==
    /\ [](\A h \in Reqs :
            (task[h].kind = "health" /\ task[h].pc = "done")
            => task[h].result = Healthy)
    /\ \A h \in Reqs :
         (task[h].kind = "health" /\ task[h].pc = "sent")
         ~> (task[h].pc \in {"done", "aborted"})

\* C8: no stalling: while a request waits for the subprocess to reply, the
\* event loop can run the other handlers: a new POST /mcp can be accepted,
\* a health request that was sent can be answered, a stream whose sleep is
\* over can emit its heartbeat.
C8_NoStalling ==
    \A h \in Reqs :
        Waiting(h) =>
            \A k \in Reqs \ {h} :
                /\ (serving /\ NextIdle(k)) => ENABLED Accept(k)
                /\ (serving /\ task[k].pc = "sent") => ENABLED health_check(k)
                /\ (serving /\ SleepOver(k)) => ENABLED event_stream(k)

\* C9: heartbeat stream: an open stream is never more than one heartbeat
\* interval past its last heartbeat, and a stream that was cancelled is
\* closed and emits nothing more.
C9_Heartbeat ==
    \A h \in Reqs :
        /\ task[h].pc = "open" => task[h].since <= HeartbeatInterval
        /\ task[h].kind = "stream" => task[h].pc \in {"open", "closed"}
        /\ task[h].pc = "closed" => ~ENABLED event_stream(h)

\* C10: startup order: the gateway serves only after start_mcp_server has
\* completed, it is never started when starting the subprocess failed, and
\* every request handled over HTTP found a subprocess.
C10_StartupOrder ==
    /\ serving => process = "Popen"
    /\ mcp_handler => process = "Popen"
    /\ (mainpc \in {"finally", "exited"} /\ process = "None") => ~serving
    /\ \A h \in Reqs :
         (task[h].via = "http"
             /\ task[h].pc \in {"readline", "done", "open", "closed"})
         => task[h].proc = "Popen"

\* The gateway serves and has answered a POST /mcp written to the subprocess
C10_Witness ==
    /\ serving
    /\ \E h \in Reqs :
         /\ task[h].via = "http" /\ IsMcp(h) /\ task[h].pc = "done"
         /\ task[h].wrote /\ task[h].proc = "Popen"

\* C11: shutdown order: while stop() stops the subprocess the gateway accepts
\* nothing, no stream is open and no request is pending.
C11_ShutdownOrder ==
    InStop =>
        /\ ~serving
        /\ \A h \in Reqs : ~Unfinished(h) /\ task[h].pc # "readline"

\* C12: stop always completes: once stop() waits for the subprocess it
\* returns, with the subprocess exited, also when the subprocess ignores the
\* termination signal.
C12_StopCompletes ==
    InStop ~> (~InStop /\ procState = "exited")

\* C13: stop is idempotent: a stop() called after a stop() has returned sends
\* no signal, has nothing to wait for, and leaves the state of the bridge,
\* the subprocess, the pipes and the requests as it found it.
C13_StopIdempotent ==
    /\ [](stoppc = "again" => (procState = "exited" /\ ENABLED stop_wait))
    /\ [][(stoppc \in {"returned", "again"} /\ stoppc' # stoppc)
          => UNCHANGED <<mainpc, procVars, httpVars, pipeVars, task,
                         blockedBy>>]_vars

\* A second stop() is running on a bridge whose first stop() signalled the
\* subprocess
C13_Witness ==
    stoppc = "again" /\ process = "Popen" /\ signalled = 1

\* C14 as stated: a request whose write failed, or that found no process,
\* returns {"error": "mcp server not started"}.
C14_Original ==
    \A h \in Reqs :
        (Handled(h) /\ ~task[h].wrote)
        => task[h].result = Error("mcp server not started")

\* handle_mcp_request runs for task h in this step
HandledNow(h) == task[h].pc \in {"idle", "json"} /\ Handled(h)'

\* C14: write-failure mapping: a request handled while the subprocess is not
\* running returns at once with an error object, {"error": "MCP server not
\* started"} if the bridge has no process and the text of the exception
\* ("[Errno 32] Broken pipe") if the write failed; nothing is written, nothing
\* is read, and the event loop stays free.
C14_WriteFailure ==
    [][\A h \in Reqs :
         (HandledNow(h) /\ procState # "running")
         => /\ task'[h].pc = "done"
            /\ task'[h].result =
                 (IF process = "None" THEN NotStarted ELSE BrokenPipe)
            /\ ~task'[h].wrote /\ ~task'[h].read
            /\ stdinBuf' = stdinBuf /\ stdoutBuf' = stdoutBuf
            /\ blockedBy' = 0]_vars

\* A POST /mcp request was handled after the subprocess had exited and got
\* the text of the BrokenPipeError
C14_Witness ==
    \E h \in Reqs :
        /\ Handled(h) /\ task[h].via = "http" /\ task[h].proc = "Popen"
        /\ ~task[h].wrote /\ task[h].result = BrokenPipe
        /\ procState = "exited"

\* The requests that were written to the subprocess
Written == {h \in Reqs : IsMcp(h) /\ task[h].wrote}

\* C15: outbound framing: what was written to stdin is, for every request
\* written, its JSON serialization followed by one newline: n requests make
\* n lines, each the serialization of one request, and the text ends with a
\* newline.
C15_Framing ==
    LET lines == SplitLines(stdinBuf, <<>>)
    IN  /\ Len(lines) = Cardinality(Written)
        /\ \A h \in Written :
             \E i \in 1..Len(lines) : lines[i] = JsonDumps(task[h].body)
        /\ stdinBuf # <<>> => stdinBuf[Len(stdinBuf)] = NL

\* The texts of the requests hs, one after the other in the order given
RECURSIVE Concat(_)
Concat(hs) ==
    IF hs = <<>> THEN <<>>
    ELSE RequestJson(task[Head(hs)].body) \o Concat(Tail(hs))

\* The orders in which the written requests can have been written
Orders ==
    {o \in [1..Cardinality(Written) -> Written] :
        \A i, j \in DOMAIN o : i # j => o[i] # o[j]}

\* C16: write serialization and order: the text on stdin is the texts of the
\* written requests, each whole and once, none inside another; and the
\* handler that writes adds the whole text of its request after everything
\* written before it.
C16_WriteSerialized ==
    /\ [](\E o \in Orders : stdinBuf = Concat(o))
    /\ [][\A h \in Reqs :
            (HandledNow(h) /\ task'[h].wrote)
            => stdinBuf' = stdinBuf \o RequestJson(task'[h].body)]_vars

\* Two concurrent POST /mcp requests were both written, the second accepted
\* first
C16_Witness ==
    /\ \A h \in {1, 2} : h \in Written /\ task[h].via = "http"
    /\ stdinBuf = RequestJson(Request(2)) \o RequestJson(Request(1))

\* readline returns for task h in this step
ReadNow(h) == task[h].pc = "readline" /\ task'[h].pc = "done"

\* Task h has read a line that was not parseable JSON
ReadMalformed(h) ==
    /\ IsMcp(h) /\ task[h].pc = "done" /\ task[h].read
    /\ task[h].result = JSONDecodeError

\* C17: a malformed line is contained: once a request has read a line that
\* is not JSON and failed, a later request that gets a well-formed reply
\* gets the reply carrying its own id.
C17_MalformedContained ==
    [][\A h, k \in Reqs :
         (h # k /\ ReadMalformed(h) /\ ReadNow(k)
             /\ task'[k].result.t = "result")
         => task'[k].result.id = task[k].body.id]_vars

\* C18: empty line versus garbage: a request that reads a line that is empty
\* or only whitespace returns the end-of-stream outcome, as on a closed pipe,
\* and only a non-blank line that does not parse returns a parse error.
C18_BlankLineIsEndOfStream ==
    [][\A h \in Reqs :
         (ReadNow(h) /\ stdoutBuf # <<>>)
         => LET blank == Strip(Readline(stdoutBuf)) = <<>>
            IN  /\ blank => task'[h].result = NoResponse
                /\ task'[h].result = JSONDecodeError => ~blank]_vars

\* The requests that are in flight: written, the reply not read yet
InFlight == {h \in Reqs : task[h].pc = "readline"}

\* C19: at most one request is in flight: at most one handler is between
\* its write and the return of its readline, it is the one holding the event
\* loop, and a handler writes only when no request is in flight.
C19_OneInFlight ==
    /\ [](Cardinality(InFlight) <= 1)
    /\ [](\A h \in Reqs : h \in InFlight <=> blockedBy = h)
    /\ [][\A h \in Reqs :
            (HandledNow(h) /\ task'[h].wrote) => InFlight = {}]_vars

\* A request is in flight while another POST /mcp request waits to be handled
C19_Witness ==
    \E h, k \in Reqs :
        /\ h \in InFlight /\ task[h].via = "http"
        /\ IsMcp(k) /\ task[k].pc = "json" /\ task[k].body # BadBody

====
